---- MODULE Spec2Model ----
(***************************************************************************)
(* Model of pyArango/database.py: the Database facade and its lazy         *)
(* subclass DBHandle.  One instance is modelled; every action is one       *)
(* complete call of a method of that instance.  The server is the          *)
(* environment: each request's response is drawn from a bounded set.       *)
(* Where a DBHandle is compared with a Database, twin holds the Database   *)
(* that was constructed eagerly and receives the same calls.               *)
(*                                                                         *)
(* Line 36 of database.py, "def getCursorsURL()(self) :", is not a         *)
(* well-formed method definition, so the class has no usable               *)
(* getCursorsURL; line 251 calls self.geTransactionURL(), a name that is   *)
(* defined nowhere (line 45 defines getTransactionURL).  Both names are    *)
(* therefore modelled as attributes that are not found.                    *)
(***************************************************************************)
EXTENDS Integers, Sequences, FiniteSets, TLC

VARIABLES kind, hasC, hasG, collections, graphs, inits, call, twin

vars == <<kind, hasC, hasG, collections, graphs, inits, call, twin>>

----------------------------------------------------------------------------
(* Bounds *)

\* longest collections listing and longest graphs listing the server returns
MaxListing == 2
MaxGraphListing == 2
\* Database.__init__ runs at most this often in one behaviour
MaxInits == 2

----------------------------------------------------------------------------
(* Dictionaries (Python dict, decoded JSON object): functions on a finite   *)
(* set of keys.                                                             *)

EmptyDict == [k \in {} |-> TRUE]

Put(d, k, v) == [y \in (DOMAIN d) \cup {k} |-> IF y = k THEN v ELSE d[y]]

Has(d, k) == k \in DOMAIN d

----------------------------------------------------------------------------
(* Collaborators outside database.py                                        *)

\* consts.py: wire codes of the collection types (spec.md section 6)
COLLECTION_EDGE_TYPE == 2
COLLECTION_DOCUMENT_TYPE == 3

\* collection.py: the registry of collection classes.  "Collection" and
\* "Edges" are the generic classes; "Users" and "Knows" are schema classes
\* declared by the application, "Users" with a _properties dictionary.
CollectionClasses ==
    [Collection |-> [edge |-> FALSE, hasProps |-> FALSE, props |-> EmptyDict],
     Edges      |-> [edge |-> TRUE,  hasProps |-> FALSE, props |-> EmptyDict],
     Users      |-> [edge |-> FALSE, hasProps |-> TRUE,
                     props |-> [waitForSync |-> TRUE]],
     Knows      |-> [edge |-> TRUE,  hasProps |-> FALSE, props |-> EmptyDict]]

\* COL.isCollection(name)
isCollection(name) == name \in DOMAIN CollectionClasses

\* COL.isEdgeCollection(name)
isEdgeCollection(name) ==
    name \in DOMAIN CollectionClasses /\ CollectionClasses[name].edge

\* a collection object: colClass(self, jsonData); its name is the class
\* name unless the JSON carries one
ColHandle(cls, jsonData) ==
    [name |-> IF Has(jsonData, "name") THEN jsonData["name"] ELSE cls,
     cls  |-> cls]

\* a graph object: graphClass(self, jsonData)
GraphHandle(cls, jsonData) ==
    [name |-> IF Has(jsonData, "_key") THEN jsonData["_key"] ELSE cls,
     cls  |-> cls]

\* graph.py: the registry of graph classes declared by the application, each
\* with its _edgeDefinitions and _orphanedCollections.
EdgeDef(e, f, t) == [edgesCollection |-> e, fromCollections |-> f,
                     toCollections |-> t]

GraphClasses ==
    [Social    |-> [eds |-> <<EdgeDef("Knows", <<"Users">>, <<"Users">>)>>,
                    orphans |-> <<"Users">>],
     BadEdge   |-> [eds |-> <<EdgeDef("Ghost", <<"Nobody">>, <<"Users">>)>>,
                    orphans |-> <<"Nowhere">>],
     DocEdge   |-> [eds |-> <<EdgeDef("Users", <<"Nobody">>, <<"Users">>)>>,
                    orphans |-> <<>>],
     BadFrom   |-> [eds |-> <<EdgeDef("Knows", <<"Users", "Nobody">>,
                                      <<"Ghost">>)>>,
                    orphans |-> <<>>],
     BadTo     |-> [eds |-> <<EdgeDef("Knows", <<"Users">>,
                                      <<"Users", "Ghost">>)>>,
                    orphans |-> <<"Nowhere">>],
     BadSecond |-> [eds |-> <<EdgeDef("Knows", <<"Users">>, <<"Users">>),
                              EdgeDef("Edges", <<"Nobody">>, <<"Ghost">>)>>,
                    orphans |-> <<"Nowhere">>],
     BadOrphan |-> [eds |-> <<EdgeDef("Knows", <<"Users">>, <<"Users">>)>>,
                    orphans |-> <<"Users", "Nowhere", "Ghost">>]]

----------------------------------------------------------------------------
(* Exceptions and the state threaded through one call                       *)

NoResp == [status |-> 0, data |-> EmptyDict]

Exc(type, msg, data, aux) ==
    [type |-> type, msg |-> msg, data |-> data, aux |-> aux]

NoExc == Exc("none", "", EmptyDict, "")

\* raise Cls(data["errorMessage"], aux, data): the subscript itself raises
\* KeyError when the payload has no errorMessage
ServerError(type, data, aux) ==
    IF Has(data, "errorMessage")
    THEN Exc(type, data["errorMessage"], data, aux)
    ELSE Exc("KeyError", "errorMessage", EmptyDict, "")

\* the instance as one call sees it: the instance attributes, the number of
\* runs of Database.__init__, and what the call did so far
Self ==
    [hasC |-> hasC, hasG |-> hasG, collections |-> collections,
     graphs |-> graphs, inits |-> inits, events |-> <<>>, exc |-> NoExc]

Ok(st) == st.exc.type = "none"

Raise(st, e) == [st EXCEPT !.exc = e]

\* what a call does that is visible outside the instance: requests with the
\* response they got, deletes of handles, progress notifications, and runs
\* of Database.__init__
Ev(t, target, body, resp) ==
    [t |-> t, target |-> target, body |-> body, resp |-> resp]

Emit(st, ev) == [st EXCEPT !.events = Append(@, ev)]

----------------------------------------------------------------------------
(* Server responses                                                         *)


\* the collections the server may list
ColUniverse ==
    { [name |-> "_users", isSystem |-> TRUE,  type |-> COLLECTION_DOCUMENT_TYPE],
      [name |-> "Users",  isSystem |-> FALSE, type |-> COLLECTION_DOCUMENT_TYPE],
      [name |-> "x",      isSystem |-> FALSE, type |-> COLLECTION_DOCUMENT_TYPE],
      [name |-> "x",      isSystem |-> FALSE, type |-> COLLECTION_EDGE_TYPE] }

\* the graphs the server may list
GraphUniverse == { [_key |-> "Social"], [_key |-> "g"] }

SeqsUpTo(S, n) == UNION { [1..m -> S] : m \in 0..n }

ErrBodies == { [error |-> TRUE, errorMessage |-> "boom"], [error |-> TRUE] }

CollListingResponses ==
    { [status |-> 200, data |-> [error |-> FALSE, result |-> l]] :
        l \in SeqsUpTo(ColUniverse, MaxListing) }
    \cup { [status |-> 400, data |-> b] : b \in ErrBodies }

GraphListingResponses ==
    { [status |-> 200, data |-> [error |-> FALSE, graphs |-> l]] :
        l \in SeqsUpTo(GraphUniverse, MaxGraphListing) }
    \cup { [status |-> 400, data |-> b] : b \in ErrBodies }

----------------------------------------------------------------------------
(* reloadCollections, reloadGraphs, reload                                  *)

\* the object built for one listed collection
ClassifyCollection(colData) ==
    IF colData.isSystem THEN ColHandle("SystemCollection", colData)
    ELSE IF colData.name \in DOMAIN CollectionClasses
         THEN ColHandle(colData.name, colData)
    ELSE IF colData.type = COLLECTION_EDGE_TYPE THEN ColHandle("Edges", colData)
    ELSE ColHandle("Collection", colData)

RECURSIVE LoadCollections(_, _)
LoadCollections(reg, lst) ==
    IF lst = <<>> THEN reg
    ELSE LoadCollections(Put(reg, Head(lst).name, ClassifyCollection(Head(lst))),
                         Tail(lst))

ClassifyGraph(graphData) ==
    IF graphData._key \in DOMAIN GraphClasses
    THEN GraphHandle(graphData._key, graphData)
    ELSE GraphHandle("Graph", graphData)

RECURSIVE LoadGraphs(_, _)
LoadGraphs(reg, lst) ==
    IF lst = <<>> THEN reg
    ELSE LoadGraphs(Put(reg, Head(lst)._key, ClassifyGraph(Head(lst))), Tail(lst))

\* a reload that adds the listed collections to the ones already known
reloadCollectionsKeep(st, r) ==
    LET s1 == Emit(st, Ev("GET", "collection", "", r)) IN
    IF r.status = 200
    THEN [s1 EXCEPT !.hasC = TRUE,
                    !.collections = LoadCollections(st.collections,
                                                    r.data.result)]
    ELSE Raise(s1, ServerError("UpdateError", r.data, ""))

reloadCollections(st, r) ==
    LET s1 == Emit(st, Ev("GET", "collection", "", r)) IN
    IF r.status = 200
    THEN [s1 EXCEPT !.hasC = TRUE,
                    !.collections = LoadCollections(EmptyDict, r.data.result)]
    ELSE Raise(s1, ServerError("UpdateError", r.data, ""))

reloadGraphs(st, r) ==
    LET s1 == Emit(st, Ev("GET", "gharial", "", r)) IN
    IF r.status = 200
    THEN [s1 EXCEPT !.hasG = TRUE,
                    !.graphs = LoadGraphs(EmptyDict, r.data.graphs)]
    ELSE Raise(s1, ServerError("UpdateError", r.data, ""))

reload(st, rc, rg) ==
    LET s1 == reloadCollections(st, rc) IN
    IF Ok(s1) THEN reloadGraphs(s1, rg) ELSE s1

----------------------------------------------------------------------------
(* Database.__init__ and attribute access                                   *)

DatabaseInit(st, rc, rg) ==
    reload([Emit(st, Ev("init", "", "", NoResp)) EXCEPT
               !.hasC = TRUE, !.collections = EmptyDict,
               !.hasG = TRUE, !.graphs = EmptyDict,
               !.inits = @ + 1],
           rc, rg)

\* names found on the class Database
ClassAttrs ==
    {"getURL", "getCollectionsURL", "getExplainURL", "getGraphsURL",
     "getTransactionURL", "reloadCollections", "reloadGraphs", "reload",
     "createCollection", "fetchDocument", "createGraph", "hasCollection",
     "hasGraph", "dropAllCollections", "AQLQuery", "explainAQLQuery",
     "validateAQLQuery", "transaction"}

\* names found in the instance dictionary
InstanceAttrs(st) ==
    {"name", "connection"}
    \cup (IF st.hasC THEN {"collections"} ELSE {})
    \cup (IF st.hasG THEN {"graphs"} ELSE {})

AttributeError(k) == Exc("AttributeError", k, EmptyDict, "")

\* evaluation of self.k: normal lookup, then DBHandle.__getattr__
GetAttr(st, k, rc, rg) ==
    IF k \in InstanceAttrs(st) \cup ClassAttrs THEN st
    ELSE IF kind = "DBHandle"
         THEN LET s1 == DatabaseInit(st, rc, rg) IN
              IF ~Ok(s1) \/ k \in InstanceAttrs(s1) THEN s1
              ELSE Raise(s1, AttributeError(k))
    ELSE Raise(st, AttributeError(k))

\* does self.k run Database.__init__ ?
Inits(st, k) == kind = "DBHandle" /\ k \notin InstanceAttrs(st) \cup ClassAttrs

\* the responses a run of Database.__init__ consumes, when there is one
InitColResponses(b) == IF b THEN CollListingResponses ELSE {NoResp}
InitGraphResponses(b) == IF b THEN GraphListingResponses ELSE {NoResp}

----------------------------------------------------------------------------
(* createCollection                                                         *)

StatusCodes == {200, 201, 202, 400}

\* what the server may answer to POST /collection: a status and one of the
\* descriptor of the created collection (which echoes the name and type
\* posted), the same without an error flag, or an error body
CreateCollectionReplies ==
    { [status |-> s, body |-> b] :
        s \in {200, 201, 400},
        b \in {"created", "noflag", "error", "errorNoMessage"} }

CollectionReply(payload, reply) ==
    LET desc == [name |-> payload["name"], type |-> payload["type"],
                 isSystem |-> FALSE] IN
    [status |-> reply.status,
     data |-> CASE reply.body = "created" -> Put(desc, "error", FALSE)
                [] reply.body = "noflag" -> desc
                [] reply.body = "error" ->
                       [error |-> TRUE, errorMessage |-> "boom"]
                [] OTHER -> [error |-> TRUE]]

\* the declared defaults overlaid with the keyword arguments
EffectivePropertiesMerged(className, colProperties) ==
    LET d == IF CollectionClasses[className].hasProps
             THEN CollectionClasses[className].props ELSE EmptyDict
    IN [k \in DOMAIN d \cup DOMAIN colProperties |->
          IF k \in DOMAIN colProperties THEN colProperties[k] ELSE d[k]]

\* colProperties before the name is resolved (lines 103-109)
EffectiveProperties(className, colProperties) ==
    IF Cardinality(DOMAIN colProperties) > 0 THEN colProperties
    ELSE IF CollectionClasses[className].hasProps
         THEN CollectionClasses[className].props
    ELSE EmptyDict

\* the body of the POST (lines 111-123), once the name checks have passed
CollectionPayload(className, colProperties) ==
    LET p1 == EffectiveProperties(className, colProperties)
        p2 == IF className # "Collection" /\ className # "Edges"
              THEN Put(p1, "name", className) ELSE p1
    IN Put(p2, "type", IF CollectionClasses[className].edge
                       THEN COLLECTION_EDGE_TYPE
                       ELSE COLLECTION_DOCUMENT_TYPE)

\* line 111 and line 114: a generic collection is asked for without a name
MissingNameCollectionOnly(className, props) ==
    className = "Collection" /\ ~Has(props, "name")

MissingName(className, props) ==
    ~(className # "Collection" /\ className # "Edges") /\ ~Has(props, "name")

\* line 117: colProperties['name'] in self.collections
AlreadyHasNever(reg, name) == FALSE

AlreadyHas(reg, name) == name \in DOMAIN reg

\* line 131: self.collections[col.name] = col
RegisterUnderClass(reg, col) == Put(reg, col.cls, col)

Register(reg, col) == Put(reg, col.name, col)

createCollection(st, className, colProperties, rc0, rg0, reply) ==
    IF ~isCollection(className)
    THEN [st |-> Raise(st, Exc("KeyError", className, EmptyDict, "")),
          value |-> EmptyDict]
    ELSE
    IF MissingName(className, EffectiveProperties(className, colProperties))
    THEN [st |-> Raise(st, Exc("ValueError", "a 'name' argument mush be supplied",
                               EmptyDict, "")),
          value |-> EmptyDict]
    ELSE
    LET payload == CollectionPayload(className, colProperties)
        s1 == GetAttr(st, "collections", rc0, rg0)
    IN
    IF ~Ok(s1) THEN [st |-> s1, value |-> EmptyDict]
    ELSE IF ~Has(payload, "name")
    THEN [st |-> Raise(s1, Exc("KeyError", "name", EmptyDict, "")),
          value |-> EmptyDict]
    ELSE IF AlreadyHas(s1.collections, payload["name"])
    THEN [st |-> Raise(s1, Exc("CreationError", "already has a collection named",
                               EmptyDict, payload["name"])),
          value |-> EmptyDict]
    ELSE
    LET resp == CollectionReply(payload, reply)
        s2 == Emit(s1, Ev("POST", "collection", payload, resp))
    IN
    IF resp.status = 200
    THEN IF ~Has(resp.data, "error")
         THEN [st |-> Raise(s2, Exc("KeyError", "error", EmptyDict, "")),
               value |-> EmptyDict]
         ELSE IF ~resp.data["error"]
         THEN LET col == ColHandle(className, resp.data)
                  s3 == [s2 EXCEPT !.collections = Register(@, col)]
              IN IF Has(s3.collections, col.name)
                 THEN [st |-> s3, value |-> s3.collections[col.name]]
                 ELSE [st |-> Raise(s3, Exc("KeyError", col.name, EmptyDict, "")),
                       value |-> EmptyDict]
         ELSE [st |-> Raise(s2, ServerError("CreationError", resp.data, "")),
               value |-> EmptyDict]
    ELSE [st |-> Raise(s2, ServerError("CreationError", resp.data, "")),
          value |-> EmptyDict]

----------------------------------------------------------------------------
(* createGraph                                                              *)

\* _checkCollectionList(lst): the first name that is not a collection class,
\* "" when there is none
RECURSIVE checkCollectionList(_)
checkCollectionList(lst) ==
    IF lst = <<>> THEN ""
    ELSE IF ~isCollection(Head(lst)) THEN Head(lst)
    ELSE checkCollectionList(Tail(lst))

NotACollection(colName) ==
    Exc("ValueError", "is not a defined Collection", EmptyDict, colName)

\* the loop with the 'to' collections checked before the 'from' collections
RECURSIVE checkEdgeDefinitionsToFirst(_)
checkEdgeDefinitionsToFirst(eds) ==
    IF eds = <<>> THEN NoExc
    ELSE LET e == Head(eds) IN
         IF ~isEdgeCollection(e.edgesCollection)
         THEN Exc("ValueError", "is not a defined Edge Collection", EmptyDict,
                  e.edgesCollection)
         ELSE IF checkCollectionList(e.toCollections) # ""
         THEN NotACollection(checkCollectionList(e.toCollections))
         ELSE IF checkCollectionList(e.fromCollections) # ""
         THEN NotACollection(checkCollectionList(e.fromCollections))
         ELSE checkEdgeDefinitionsToFirst(Tail(eds))

\* the loop of lines 154-160: the exception it raises, NoExc when it ends
RECURSIVE checkEdgeDefinitions(_)
checkEdgeDefinitions(eds) ==
    IF eds = <<>> THEN NoExc
    ELSE LET e == Head(eds) IN
         IF ~isEdgeCollection(e.edgesCollection)
         THEN Exc("ValueError", "is not a defined Edge Collection", EmptyDict,
                  e.edgesCollection)
         ELSE IF checkCollectionList(e.fromCollections) # ""
         THEN NotACollection(checkCollectionList(e.fromCollections))
         ELSE IF checkCollectionList(e.toCollections) # ""
         THEN NotACollection(checkCollectionList(e.toCollections))
         ELSE checkEdgeDefinitions(Tail(eds))

\* lines 164-180; numberOfShards 0 and smartGraphAttribute "" stand for None
GraphPayload(name, isSmart, numberOfShards, smartGraphAttribute) ==
    LET o1 == IF numberOfShards # 0
              THEN Put(EmptyDict, "numberOfShards", numberOfShards)
              ELSE EmptyDict
        options == IF smartGraphAttribute # ""
                   THEN Put(o1, "smartGraphAttribute", smartGraphAttribute)
                   ELSE o1
        p0 == [name |-> name, edgeDefinitions |-> GraphClasses[name].eds,
               orphanCollections |-> GraphClasses[name].orphans]
        p1 == IF isSmart THEN Put(p0, "isSmart", isSmart) ELSE p0
    IN IF DOMAIN options # {} THEN Put(p1, "options", options) ELSE p1

\* what the server may answer to POST /gharial
CreateGraphResponses(name) ==
    { [status |-> s, data |-> b] :
        s \in StatusCodes,
        b \in {[error |-> FALSE, graph |-> [_key |-> name]]} \cup ErrBodies }

createGraph(st, name, isSmart, numberOfShards, smartGraphAttribute, rc0, rg0, resp) ==
    IF name \notin DOMAIN GraphClasses
    THEN [st |-> Raise(st, Exc("KeyError", name, EmptyDict, "")),
          value |-> EmptyDict]
    ELSE
    LET e1 == checkEdgeDefinitions(GraphClasses[name].eds) IN
    IF e1.type # "none" THEN [st |-> Raise(st, e1), value |-> EmptyDict]
    ELSE IF checkCollectionList(GraphClasses[name].orphans) # ""
    THEN [st |-> Raise(st, NotACollection(
                           checkCollectionList(GraphClasses[name].orphans))),
          value |-> EmptyDict]
    ELSE
    LET payload == GraphPayload(name, isSmart, numberOfShards,
                                smartGraphAttribute)
        s1 == Emit(st, Ev("POST", "gharial", payload, resp))
    IN
    IF resp.status = 201 \/ resp.status = 202
    THEN IF ~Has(resp.data, "graph")
         THEN [st |-> Raise(s1, Exc("KeyError", "graph", EmptyDict, "")),
               value |-> EmptyDict]
         ELSE LET g == GraphHandle(name, resp.data["graph"])
                  s2 == GetAttr(s1, "graphs", rc0, rg0)
              IN IF ~Ok(s2) THEN [st |-> s2, value |-> EmptyDict]
                 ELSE [st |-> [s2 EXCEPT !.graphs = Put(@, name, g)],
                       value |-> g]
    ELSE [st |-> Raise(s1, ServerError("CreationError", resp.data, "")),
          value |-> EmptyDict]

----------------------------------------------------------------------------
(* hasCollection, hasGraph, __getitem__, dropAllCollections                 *)

hasCollection(st, name, rc0, rg0) ==
    LET s1 == GetAttr(st, "collections", rc0, rg0) IN
    [st |-> s1, value |-> Ok(s1) /\ name \in DOMAIN s1.collections]

\* a test that looks the graph name up among the collections
hasGraphAmongCollections(st, name, rc0, rg0) ==
    LET s1 == GetAttr(st, "collections", rc0, rg0) IN
    [st |-> s1, value |-> Ok(s1) /\ name \in DOMAIN s1.collections]

hasGraph(st, name, rc0, rg0) ==
    LET s1 == GetAttr(st, "graphs", rc0, rg0) IN
    [st |-> s1, value |-> Ok(s1) /\ name \in DOMAIN s1.graphs]

\* a lookup that does not look again after the reload
getitemNoRetry(st, collectionName, rc0, rg0, rc, rg) ==
    LET s1 == GetAttr(st, "collections", rc0, rg0) IN
    IF ~Ok(s1) THEN [st |-> s1, value |-> EmptyDict]
    ELSE IF collectionName \in DOMAIN s1.collections
    THEN [st |-> s1, value |-> s1.collections[collectionName]]
    ELSE LET s2 == reload(s1, rc, rg) IN
         IF ~Ok(s2) THEN [st |-> s2, value |-> EmptyDict]
         ELSE [st |-> Raise(s2, Exc("KeyError", "Can't find any collection named",
                                    EmptyDict, collectionName)),
               value |-> EmptyDict]

\* database[collectionName]
getitem(st, collectionName, rc0, rg0, rc, rg) ==
    LET s1 == GetAttr(st, "collections", rc0, rg0) IN
    IF ~Ok(s1) THEN [st |-> s1, value |-> EmptyDict]
    ELSE IF collectionName \in DOMAIN s1.collections
    THEN [st |-> s1, value |-> s1.collections[collectionName]]
    ELSE LET s2 == reload(s1, rc, rg) IN
         IF ~Ok(s2) THEN [st |-> s2, value |-> EmptyDict]
         ELSE IF collectionName \in DOMAIN s2.collections
         THEN [st |-> s2, value |-> s2.collections[collectionName]]
         ELSE [st |-> Raise(s2, Exc("KeyError", "Can't find any collection named",
                                    EmptyDict, collectionName)),
               value |-> EmptyDict]

\* first character of the names that occur
FirstChar ==
    [_users |-> "_", Users |-> "U", x |-> "x", Knows |-> "K",
     Collection |-> "C", Edges |-> "E", nope |-> "n"]

\* a test by which no name is a system name
StartsWithUnderscoreNever(name) == FALSE

\* collection_name.startswith('_')
StartsWithUnderscore(name) == FirstChar[name] = "_"

\* the keys of a dict in the order the iteration yields them: order is a
\* sequence of all names, in any order
KeysInOrder(d, order) == SelectSeq(order, LAMBDA k : k \in DOMAIN d)

\* a loop that also forgets every graph it deletes
deleteGraphsForgetting(st, names) ==
    [st EXCEPT
       !.events = @ \o [i \in 1..Len(names) |->
                          Ev("delete", "graph", names[i], NoResp)],
       !.graphs = [k \in DOMAIN @ \ {names[i] : i \in 1..Len(names)} |-> @[k]]]

\* for graph_name in self.graphs : self.graphs[graph_name].delete()
RECURSIVE deleteGraphs(_, _)
deleteGraphs(st, names) ==
    IF names = <<>> THEN st
    ELSE deleteGraphs(Emit(st, Ev("delete", "graph", Head(names), NoResp)),
                      Tail(names))

\* for collection_name in self.collections : ... self[collection_name].delete()
\* (the lookup hits the local mapping: the name comes from it)
RECURSIVE deleteCollections(_, _)
deleteCollections(st, names) ==
    IF names = <<>> THEN st
    ELSE deleteCollections(
             IF ~StartsWithUnderscore(Head(names))
             THEN Emit(st, Ev("delete", "collection", Head(names), NoResp))
             ELSE st,
             Tail(names))

dropAllCollections(st, gorder, corder, rc0, rg0) ==
    LET s1 == GetAttr(st, "graphs", rc0, rg0) IN
    IF ~Ok(s1) THEN s1
    ELSE LET s2 == deleteGraphs(s1, KeysInOrder(s1.graphs, gorder))
             s3 == GetAttr(s2, "collections", rc0, rg0)
         IN IF ~Ok(s3) THEN s3
            ELSE deleteCollections(s3, KeysInOrder(s3.collections, corder))

----------------------------------------------------------------------------
(* validateAQLQuery, transaction                                            *)

QueryResponses ==
    { [status |-> s, data |-> b] :
        s \in StatusCodes,
        b \in {[error |-> FALSE, parsed |-> TRUE]} \cup ErrBodies }

validateAQLQuery(st, query, rc0, rg0, resp) ==
    LET s1 == GetAttr(st, "getCursorsURL", rc0, rg0) IN
    IF ~Ok(s1) THEN [st |-> s1, value |-> EmptyDict]
    ELSE
    LET payload == [query |-> query, bindVars |-> EmptyDict,
                    options |-> EmptyDict]
        s2 == Emit(s1, Ev("POST", "cursor", payload, resp))
    IN
    IF resp.status = 201
    THEN IF ~Has(resp.data, "error")
         THEN [st |-> Raise(s2, Exc("KeyError", "error", EmptyDict, "")),
               value |-> EmptyDict]
         ELSE IF ~resp.data["error"]
         THEN [st |-> s2, value |-> resp.data]
         ELSE [st |-> Raise(s2, ServerError("AQLQueryError", resp.data, query)),
               value |-> EmptyDict]
    ELSE [st |-> Raise(s2, ServerError("AQLQueryError", resp.data, query)),
          value |-> EmptyDict]

TransactionResponses ==
    { [status |-> s, data |-> b] :
        s \in StatusCodes,
        b \in {[error |-> FALSE, result |-> 42], [result |-> 42]}
              \cup ErrBodies }

\* lockTimeout 0 and params "" stand for None
TransactionPayload(cols, action, waitForSync, lockTimeout, params) ==
    LET p0 == [collections |-> cols, action |-> action,
               waitForSync |-> waitForSync]
        p1 == IF lockTimeout # 0 THEN Put(p0, "lockTimeout", lockTimeout)
              ELSE p0
    IN IF params # "" THEN Put(p1, "params", params) ELSE p1

transaction(st, cols, action, waitForSync, lockTimeout, params, rc0, rg0, resp) ==
    LET payload == TransactionPayload(cols, action, waitForSync, lockTimeout,
                                      params)
        s1 == Emit(st, Ev("reportStart", "connection", action, NoResp))
        s2 == GetAttr(s1, "geTransactionURL", rc0, rg0)
    IN
    IF ~Ok(s2) THEN [st |-> s2, value |-> EmptyDict]
    ELSE
    LET s3 == Emit(s2, Ev("POST", "transaction", payload, resp))
        s4 == Emit(s3, Ev("reportItem", "connection", "", NoResp))
    IN
    IF resp.status \in {200, 201, 202}
       /\ ~(Has(resp.data, "error") /\ resp.data["error"])
    THEN [st |-> s4, value |-> resp.data]
    ELSE [st |-> Raise(s4, ServerError("TransactionError", resp.data, action)),
          value |-> EmptyDict]

----------------------------------------------------------------------------
(* The record of the last call                                              *)

Call(op, arg, st, value) ==
    [op |-> op, arg |-> arg, exc |-> st.exc, value |-> value,
     events |-> st.events]

\* no call is in progress and the result of the last one has been consumed
Idle == [op |-> "idle", arg |-> "", exc |-> NoExc, value |-> EmptyDict,
         events |-> <<>>]

\* a call is made when the caller has consumed the result of the previous one
Ready == call.op = "idle"

\* the call ends: the instance takes the attributes the call left
Finish(op, arg, st, value) ==
    /\ hasC' = st.hasC
    /\ hasG' = st.hasG
    /\ collections' = st.collections
    /\ graphs' = st.graphs
    /\ inits' = st.inits
    /\ call' = Call(op, arg, st, IF Ok(st) THEN value ELSE EmptyDict)
    /\ UNCHANGED <<kind, twin>>

\* no Database is run alongside
NoTwin ==
    [collections |-> EmptyDict, graphs |-> EmptyDict, exc |-> NoExc,
     value |-> EmptyDict, rc0 |-> NoResp, rg0 |-> NoResp]

Blank ==
    [hasC |-> FALSE, hasG |-> FALSE, collections |-> EmptyDict,
     graphs |-> EmptyDict, inits |-> 0, events |-> <<>>, exc |-> NoExc]

\* Database(connection, name): the constructor runs reload, and the instance
\* exists only if it returns
InitDatabase ==
    /\ kind = "Database"
    /\ twin = NoTwin
    /\ \E rc \in CollListingResponses, rg \in GraphListingResponses :
         LET st == DatabaseInit(Blank, rc, rg) IN
         /\ Ok(st)
         /\ hasC = st.hasC /\ hasG = st.hasG
         /\ collections = st.collections /\ graphs = st.graphs
         /\ inits = st.inits
         /\ call = Call("Database", "", st, EmptyDict)

\* DBHandle(connection, name) stores its two arguments and nothing else
InitDBHandle ==
    /\ kind = "DBHandle"
    /\ twin = NoTwin
    /\ hasC = FALSE /\ hasG = FALSE
    /\ collections = EmptyDict /\ graphs = EmptyDict
    /\ inits = 0
    /\ call = Call("DBHandle", "", Blank, EmptyDict)

----------------------------------------------------------------------------
(* Actions: one per method call                                             *)

Names == {"Users", "x", "Knows", "nope"}

ClassNames == {"Collection", "Edges", "Users", "Knows"}

\* the keyword arguments of createCollection
CallerProperties ==
    LET ns == {"x", "_users"} IN
    {EmptyDict, [waitForSync |-> FALSE], [name |-> "x", waitForSync |-> FALSE]}
    \cup { [name |-> n] : n \in ns }

GraphNames == DOMAIN GraphClasses

\* the orders in which a dict with the keys S may yield them
Perms(S) ==
    { f \in [1..Cardinality(S) -> S] :
        \A i, j \in 1..Cardinality(S) : i # j => f[i] # f[j] }

\* a call that runs Database.__init__ is taken only below the bound
Bounded(st) == st.inits <= MaxInits

\* a response is drawn for a request only if the call sends the request
Sends(st, t, target) ==
    \E i \in 1..Len(st.events) :
        st.events[i].t = t /\ st.events[i].target = target

NoReply == [status |-> 0, body |-> "none"]

ReloadCollections ==
    /\ Ready
    /\ \E rc \in CollListingResponses :
               Finish("reloadCollections", "", reloadCollections(Self, rc), EmptyDict)

ReloadGraphs ==
    /\ Ready
    /\ \E rg \in GraphListingResponses :
               Finish("reloadGraphs", "", reloadGraphs(Self, rg), EmptyDict)

Reload ==
    /\ Ready
    /\ \E rc \in CollListingResponses :
           \E rg \in (IF rc.status = 200 THEN GraphListingResponses ELSE {NoResp}) :
               Finish("reload", "", reload(Self, rc, rg), EmptyDict)

CreateCollection ==
    /\ Ready
    /\ \E className \in ClassNames, colProperties \in CallerProperties :
           \E rc0 \in InitColResponses(Inits(Self, "collections")) :
           \E rg0 \in InitGraphResponses(Inits(Self, "collections")
                                         /\ rc0.status = 200) :
           \E reply \in (IF Sends(createCollection(Self, className, colProperties,
                                                   rc0, rg0, NoReply).st,
                                  "POST", "collection")
                         THEN CreateCollectionReplies ELSE {NoReply}) :
               LET res == createCollection(Self, className, colProperties, rc0, rg0,
                                           reply)
               IN /\ Bounded(res.st)
                  /\ Finish("createCollection",
                            [className |-> className, colProperties |-> colProperties],
                            res.st, res.value)

CreateGraph ==
    /\ Ready
    /\ \E name \in GraphNames :
           \E opts \in {<<FALSE, 0, "">>, <<TRUE, 3, "region">>} :
           \E resp \in (IF Sends(createGraph(Self, name, opts[1], opts[2], opts[3],
                                             NoResp, NoResp, NoResp).st,
                                 "POST", "gharial")
                        THEN CreateGraphResponses(name) ELSE {NoResp}) :
           \E rc0 \in InitColResponses(Inits(Self, "graphs")
                                       /\ resp.status \in {201, 202}
                                       /\ Has(resp.data, "graph")) :
           \E rg0 \in InitGraphResponses(rc0.status = 200) :
               LET res == createGraph(Self, name, opts[1], opts[2], opts[3],
                                      rc0, rg0, resp)
               IN /\ Bounded(res.st)
                  /\ Finish("createGraph", name, res.st, res.value)

HasCollection ==
    /\ Ready
    /\ \E name \in Names :
           \E rc0 \in InitColResponses(Inits(Self, "collections")) :
           \E rg0 \in InitGraphResponses(rc0.status = 200) :
               LET res == hasCollection(Self, name, rc0, rg0)
               IN /\ Bounded(res.st)
                  /\ Finish("hasCollection", name, res.st, res.value)

HasGraph ==
    /\ Ready
    /\ \E name \in {"Social", "g", "nope"} :
           \E rc0 \in InitColResponses(Inits(Self, "graphs")) :
           \E rg0 \in InitGraphResponses(rc0.status = 200) :
               LET res == hasGraph(Self, name, rc0, rg0)
               IN /\ Bounded(res.st)
                  /\ Finish("hasGraph", name, res.st, res.value)

GetItem ==
    /\ Ready
    /\ \E collectionName \in Names :
           \E rc0 \in InitColResponses(Inits(Self, "collections")) :
           \E rg0 \in InitGraphResponses(rc0.status = 200) :
           \E rc \in (IF Sends(getitem(Self, collectionName, rc0, rg0,
                                       NoResp, NoResp).st, "GET", "collection")
                         /\ (rc0.status = 200 => rg0.status = 200)
                      THEN CollListingResponses ELSE {NoResp}) :
           \E rg \in (IF rc.status = 200 THEN GraphListingResponses ELSE {NoResp}) :
               LET res == getitem(Self, collectionName, rc0, rg0, rc, rg)
               IN /\ Bounded(res.st)
                  /\ Finish("getitem", collectionName, res.st, res.value)

DropAllCollections ==
    /\ Ready
    /\ \E rc0 \in InitColResponses(Inits(Self, "graphs")
                                       \/ Inits(Self, "collections")) :
           \E rg0 \in InitGraphResponses(rc0.status = 200) :
               LET probe == dropAllCollections(Self, <<>>, <<>>, rc0, rg0) IN
               \E gorder \in Perms(IF hasG THEN DOMAIN graphs
                                   ELSE DOMAIN probe.graphs),
                  corder \in Perms(DOMAIN probe.collections) :
                   LET st == dropAllCollections(Self, gorder, corder, rc0, rg0)
                   IN /\ Bounded(st)
                      /\ Finish("dropAllCollections", "", st, EmptyDict)

ValidateAQLQuery ==
    /\ Ready
    /\ \E query \in {"RETURN 1", "RETURN"} :
           \E rc0 \in InitColResponses(Inits(Self, "getCursorsURL")) :
           \E rg0 \in InitGraphResponses(rc0.status = 200) :
           \E resp \in (IF Sends(validateAQLQuery(Self, query, rc0, rg0, NoResp).st,
                                 "POST", "cursor")
                        THEN QueryResponses ELSE {NoResp}) :
               LET res == validateAQLQuery(Self, query, rc0, rg0, resp)
               IN /\ Bounded(res.st)
                  /\ Finish("validateAQLQuery", query, res.st, res.value)

Transaction ==
    /\ Ready
    /\ \E action \in {"function () { return 42; }"}, lockTimeout \in {0, 5} :
           \E rc0 \in InitColResponses(Inits(Self, "geTransactionURL")) :
           \E rg0 \in InitGraphResponses(rc0.status = 200) :
           \E resp \in (IF Sends(transaction(Self, [write |-> <<"x">>], action, FALSE,
                                             lockTimeout, "", rc0, rg0, NoResp).st,
                                 "POST", "transaction")
                        THEN TransactionResponses ELSE {NoResp}) :
               LET res == transaction(Self, [write |-> <<"x">>], action, FALSE,
                                      lockTimeout, "", rc0, rg0, resp)
               IN /\ Bounded(res.st)
                  /\ Finish("transaction", action, res.st, res.value)

\* evaluation of instance.k by the caller
Attribute ==
    /\ Ready
    /\ \E k \in {"name", "connection", "collections", "graphs", "getURL",
                     "nosuch"} :
           \E rc0 \in InitColResponses(Inits(Self, k)) :
           \E rg0 \in InitGraphResponses(rc0.status = 200) :
               LET st == GetAttr(Self, k, rc0, rg0)
               IN /\ Bounded(st)
                  /\ Finish("getattr", k, st, EmptyDict)

\* a reload is between its GET and the end of its loop
Running == call.op \in {"reloadCollections.loop", "reloadGraphs.loop"}

\* the caller consumes the result of the last call (or of the constructor)
Return ==
    /\ call.op # "idle"
    /\ ~Running
    /\ call' = Idle
    /\ UNCHANGED <<kind, twin, hasC, hasG, collections, graphs, inits>>

Next ==
    \/ ReloadCollections
    \/ ReloadGraphs
    \/ Reload
    \/ CreateCollection
    \/ CreateGraph
    \/ HasCollection
    \/ HasGraph
    \/ GetItem
    \/ DropAllCollections
    \/ ValidateAQLQuery
    \/ Transaction
    \/ Attribute
    \/ Return

\* the calls made on a Database
Spec == InitDatabase /\ [][Next]_vars

\* the calls made on a DBHandle
SpecDBHandle == InitDBHandle /\ [][Next]_vars

----------------------------------------------------------------------------
(* reloadCollections and reloadGraphs, one assignment at a time: what the   *)
(* instance holds between two statements of a reload is what another thread *)
(* reads, and what is left when the loop is interrupted                     *)

\* the record of a reload under way: arg is the mapping before the call,
\* value the part of the listing the loop has not reached
Loop(op, pre, rest, ev) ==
    [op |-> op, arg |-> pre, exc |-> NoExc, value |-> rest, events |-> <<ev>>]

\* lines 50-53 and 74: the GET, then self.collections = {} or the error
ReloadCollectionsGet ==
    /\ Ready
    /\ \E r \in CollListingResponses :
           LET ev == Ev("GET", "collection", "", r) IN
           IF r.status = 200
           THEN /\ collections' = EmptyDict
                /\ hasC' = TRUE
                /\ call' = Loop("reloadCollections.loop", collections,
                                r.data.result, ev)
           ELSE /\ call' = [Loop("reloadCollections", collections, <<>>, ev)
                              EXCEPT !.exc = ServerError("UpdateError", r.data, "")]
                /\ UNCHANGED <<hasC, collections>>
    /\ UNCHANGED <<kind, twin, hasG, graphs, inits>>

\* lines 55-72: one turn of the loop, self.collections[colName] = colObj
ReloadCollectionsItem ==
    /\ call.op = "reloadCollections.loop"
    /\ call.value # <<>>
    /\ collections' = Put(collections, Head(call.value).name,
                          ClassifyCollection(Head(call.value)))
    /\ call' = [call EXCEPT !.value = Tail(@)]
    /\ UNCHANGED <<kind, twin, hasC, hasG, graphs, inits>>

\* the loop is over and reloadCollections returns
ReloadCollectionsDone ==
    /\ call.op = "reloadCollections.loop"
    /\ call.value = <<>>
    /\ call' = [call EXCEPT !.op = "reloadCollections"]
    /\ UNCHANGED <<kind, twin, hasC, hasG, collections, graphs, inits>>

\* lines 78-81 and 88: the GET, then self.graphs = {} or the error
ReloadGraphsGet ==
    /\ Ready
    /\ \E r \in GraphListingResponses :
           LET ev == Ev("GET", "gharial", "", r) IN
           IF r.status = 200
           THEN /\ graphs' = EmptyDict
                /\ hasG' = TRUE
                /\ call' = Loop("reloadGraphs.loop", graphs, r.data.graphs, ev)
           ELSE /\ call' = [Loop("reloadGraphs", graphs, <<>>, ev)
                              EXCEPT !.exc = ServerError("UpdateError", r.data, "")]
                /\ UNCHANGED <<hasG, graphs>>
    /\ UNCHANGED <<kind, twin, hasC, collections, inits>>

\* lines 82-86: one turn of the loop, self.graphs[graphData["_key"]] = ...
ReloadGraphsItem ==
    /\ call.op = "reloadGraphs.loop"
    /\ call.value # <<>>
    /\ graphs' = Put(graphs, Head(call.value)._key,
                     ClassifyGraph(Head(call.value)))
    /\ call' = [call EXCEPT !.value = Tail(@)]
    /\ UNCHANGED <<kind, twin, hasC, hasG, collections, inits>>

\* the loop is over and reloadGraphs returns
ReloadGraphsDone ==
    /\ call.op = "reloadGraphs.loop"
    /\ call.value = <<>>
    /\ call' = [call EXCEPT !.op = "reloadGraphs"]
    /\ UNCHANGED <<kind, twin, hasC, hasG, collections, graphs, inits>>

\* an exception raised inside the loop (an interrupt of the thread, a
\* handle constructor that fails) ends the reload where it is
Interrupt ==
    /\ Running
    /\ call' = [call EXCEPT
                  !.op = IF @ = "reloadCollections.loop"
                         THEN "reloadCollections" ELSE "reloadGraphs",
                  !.exc = Exc("KeyboardInterrupt", "", EmptyDict, ""),
                  !.value = <<>>]
    /\ UNCHANGED <<kind, twin, hasC, hasG, collections, graphs, inits>>

NextSteps ==
    \/ ReloadCollectionsGet
    \/ ReloadCollectionsItem
    \/ ReloadCollectionsDone
    \/ ReloadGraphsGet
    \/ ReloadGraphsItem
    \/ ReloadGraphsDone
    \/ Interrupt
    \/ Return

\* the reloads of a Database, statement by statement
SpecSteps == InitDatabase /\ [][NextSteps]_vars

----------------------------------------------------------------------------
(* A DBHandle and a Database side by side: the Database is constructed      *)
(* first, the handle's initialization receives the responses the            *)
(* constructor of the Database received, and every call is made on both     *)
(* with the same responses to its own requests                              *)

\* the listings with at most one entry, and the failures
ShortCollListings ==
    { r \in CollListingResponses : r.status = 200 => Len(r.data.result) <= 1 }

ShortGraphListings ==
    { r \in GraphListingResponses : r.status = 200 => Len(r.data.graphs) <= 1 }

\* the Database as the receiver of a call
TwinSelf ==
    [hasC |-> TRUE, hasG |-> TRUE, collections |-> twin.collections,
     graphs |-> twin.graphs, inits |-> 1, events |-> <<>>, exc |-> NoExc]

\* the two instances hold the same mappings, as far as the handle has any
Agree ==
    /\ hasC => collections = twin.collections
    /\ hasG => graphs = twin.graphs

\* the call ends on both: the responses of the constructor are consumed once
\* the handle holds both mappings
FinishPair(op, arg, st, value, tst, tvalue) ==
    /\ hasC' = st.hasC
    /\ hasG' = st.hasG
    /\ collections' = st.collections
    /\ graphs' = st.graphs
    /\ inits' = st.inits
    /\ call' = Call(op, arg, st, IF Ok(st) THEN value ELSE EmptyDict)
    /\ twin' = [collections |-> tst.collections, graphs |-> tst.graphs,
                exc |-> tst.exc,
                value |-> IF Ok(tst) THEN tvalue ELSE EmptyDict,
                rc0 |-> IF st.hasC /\ st.hasG THEN NoResp ELSE twin.rc0,
                rg0 |-> IF st.hasC /\ st.hasG THEN NoResp ELSE twin.rg0]
    /\ UNCHANGED kind

InitPair ==
    /\ kind = "DBHandle"
    /\ hasC = FALSE /\ hasG = FALSE
    /\ collections = EmptyDict /\ graphs = EmptyDict
    /\ inits = 0
    /\ call = Call("DBHandle", "", Blank, EmptyDict)
    /\ \E rc \in ShortCollListings, rg \in ShortGraphListings :
         LET st == DatabaseInit(Blank, rc, rg) IN
         /\ Ok(st)
         /\ twin = [collections |-> st.collections, graphs |-> st.graphs,
                    exc |-> NoExc, value |-> EmptyDict, rc0 |-> rc, rg0 |-> rg]

PairReload ==
    /\ Ready
    /\ \E rc \in ShortCollListings :
           \E rg \in (IF rc.status = 200 THEN ShortGraphListings ELSE {NoResp}) :
               FinishPair("reload", "", reload(Self, rc, rg), EmptyDict,
                          reload(TwinSelf, rc, rg), EmptyDict)

PairHasCollection ==
    /\ Ready
    /\ \E name \in Names :
           LET a == hasCollection(Self, name, twin.rc0, twin.rg0)
               b == hasCollection(TwinSelf, name, NoResp, NoResp)
           IN FinishPair("hasCollection", name, a.st, a.value, b.st, b.value)

PairHasGraph ==
    /\ Ready
    /\ \E name \in {"Social", "g", "nope"} :
           LET a == hasGraph(Self, name, twin.rc0, twin.rg0)
               b == hasGraph(TwinSelf, name, NoResp, NoResp)
           IN FinishPair("hasGraph", name, a.st, a.value, b.st, b.value)

PairGetItem ==
    /\ Ready
    /\ \E collectionName \in {"Users", "x", "nope"} :
           \E rc \in (IF Sends(getitem(Self, collectionName, twin.rc0, twin.rg0,
                                       NoResp, NoResp).st, "GET", "collection")
                         \/ collectionName \notin DOMAIN twin.collections
                      THEN ShortCollListings ELSE {NoResp}) :
           \E rg \in (IF rc.status = 200 THEN ShortGraphListings ELSE {NoResp}) :
               LET a == getitem(Self, collectionName, twin.rc0, twin.rg0, rc, rg)
                   b == getitem(TwinSelf, collectionName, NoResp, NoResp, rc, rg)
               IN FinishPair("getitem", collectionName, a.st, a.value,
                             b.st, b.value)

PairCreateCollection ==
    /\ Ready
    /\ \E className \in {"Collection", "Users"} :
           \E colProperties \in {EmptyDict, [name |-> "x"]} :
           \E reply \in (IF Sends(createCollection(TwinSelf, className,
                                      colProperties, NoResp, NoResp, NoReply).st,
                                  "POST", "collection")
                            \/ Sends(createCollection(Self, className,
                                      colProperties, twin.rc0, twin.rg0,
                                      NoReply).st, "POST", "collection")
                         THEN CreateCollectionReplies ELSE {NoReply}) :
               LET a == createCollection(Self, className, colProperties,
                                         twin.rc0, twin.rg0, reply)
                   b == createCollection(TwinSelf, className, colProperties,
                                         NoResp, NoResp, reply)
               IN FinishPair("createCollection",
                             [className |-> className,
                              colProperties |-> colProperties],
                             a.st, a.value, b.st, b.value)

PairCreateGraph ==
    /\ Ready
    /\ \E name \in {"Social", "BadEdge"} :
           \E resp \in (IF Sends(createGraph(TwinSelf, name, FALSE, 0, "",
                                             NoResp, NoResp, NoResp).st,
                                 "POST", "gharial")
                        THEN CreateGraphResponses(name) ELSE {NoResp}) :
               LET a == createGraph(Self, name, FALSE, 0, "",
                                    twin.rc0, twin.rg0, resp)
                   b == createGraph(TwinSelf, name, FALSE, 0, "",
                                    NoResp, NoResp, resp)
               IN FinishPair("createGraph", name, a.st, a.value, b.st, b.value)

PairDropAllCollections ==
    /\ Ready
    /\ \E gorder \in Perms({"Social", "g"}),
          corder \in Perms({"_users", "Users", "x"}) :
           FinishPair("dropAllCollections", "",
                      dropAllCollections(Self, gorder, corder,
                                         twin.rc0, twin.rg0), EmptyDict,
                      dropAllCollections(TwinSelf, gorder, corder,
                                         NoResp, NoResp), EmptyDict)

NextPair ==
    \/ PairReload
    \/ PairHasCollection
    \/ PairHasGraph
    \/ PairGetItem
    \/ PairCreateCollection
    \/ PairCreateGraph
    \/ PairDropAllCollections
    \/ Return

\* the calls made on a DBHandle and on a Database constructed before it
SpecPair == InitPair /\ [][NextPair]_vars

----------------------------------------------------------------------------
(* What a call did                                                          *)

Returned(c) == c.exc.type = "none"

IsRequest(ev) == ev.t \in {"GET", "POST"}

\* the requests a call sent, in order
Requests(c) == SelectSeq(c.events, IsRequest)

\* the deletes a call invoked, in order
Deletes(c) == SelectSeq(c.events, LAMBDA ev : ev.t = "delete")

\* the names a collections listing holds, the keys a graphs listing holds
ListedNames(resp) == { resp.data.result[i].name : i \in DOMAIN resp.data.result }

ListedKeys(resp) == { resp.data.graphs[i]._key : i \in DOMAIN resp.data.graphs }

IsGet(ev, target) == ev.t = "GET" /\ ev.target = target

\* the call sent the two listing requests of one reload and both succeeded
OneReload(reqs) ==
    /\ Len(reqs) = 2
    /\ IsGet(reqs[1], "collection") /\ reqs[1].resp.status = 200
    /\ IsGet(reqs[2], "gharial") /\ reqs[2].resp.status = 200

\* the call sent the requests of one reload that failed at a listing
OneFailedReload(reqs) ==
    \/ /\ Len(reqs) = 1
       /\ IsGet(reqs[1], "collection") /\ reqs[1].resp.status # 200
    \/ /\ Len(reqs) = 2
       /\ IsGet(reqs[1], "collection") /\ reqs[1].resp.status = 200
       /\ IsGet(reqs[2], "gharial") /\ reqs[2].resp.status # 200

NotFound(c) ==
    c.exc.type = "KeyError" /\ c.exc.msg = "Can't find any collection named"

----------------------------------------------------------------------------
(* C1 *)

\* C1: after a reload() that returns, the keys of collections are exactly
\* the names the collections listing returned and the keys of graphs are
\* exactly the _keys the graphs listing returned, whatever the registries
\* held before.
C1_ReloadReplaces ==
    (call.op = "reload" /\ Returned(call)) =>
        /\ OneReload(Requests(call))
        /\ DOMAIN collections = ListedNames(Requests(call)[1].resp)
        /\ DOMAIN graphs = ListedKeys(Requests(call)[2].resp)

\* a reload has returned after listings that name one collection and no graph
C1_Witness ==
    /\ call.op = "reload" /\ Returned(call)
    /\ ListedNames(Requests(call)[1].resp) = {"x"}
    /\ Len(Requests(call)[1].resp.data.result) = 2
    /\ ListedKeys(Requests(call)[2].resp) = {}
    /\ DOMAIN collections = {"x"}
    /\ DOMAIN graphs = {}

----------------------------------------------------------------------------
(* C2 *)

LocalHit(c) ==
    /\ c.arg \in DOMAIN collections
    /\ Returned(c)
    /\ c.events = <<>>
    /\ c.value = collections[c.arg]

\* C2 as stated: a lookup of a name that is known locally returns the handle
\* without a request; a lookup of a name that is not sends the two listing
\* requests of exactly one reload and then returns the handle if the name is
\* known, and fails with the not-found KeyError if it is not.
C2_LookupAsStated ==
    [][ call'.op = "getitem" =>
          IF call'.arg \in DOMAIN collections
          THEN LocalHit(call')
          ELSE /\ Len(Requests(call')) = 2
               /\ IsGet(Requests(call')[1], "collection")
               /\ IsGet(Requests(call')[2], "gharial")
               /\ IF call'.arg \in DOMAIN collections'
                  THEN Returned(call') /\ call'.value = collections'[call'.arg]
                  ELSE NotFound(call') ]_vars

\* C2 as amended: the same, except that when a listing request of that one
\* reload is answered with a status other than 200 the reload's error is the
\* error of the lookup, raised after the failed request without another
\* request and without looking again.
C2_Lookup ==
    [][ call'.op = "getitem" =>
          IF call'.arg \in DOMAIN collections
          THEN LocalHit(call') /\ UNCHANGED <<collections, graphs>>
          ELSE \/ /\ OneReload(Requests(call'))
                  /\ IF call'.arg \in DOMAIN collections'
                     THEN /\ Returned(call')
                          /\ call'.value = collections'[call'.arg]
                     ELSE NotFound(call')
               \/ /\ OneFailedReload(Requests(call'))
                  /\ call'.exc.type \in {"UpdateError", "KeyError"}
                  /\ ~NotFound(call') ]_vars

\* a lookup has found, after one reload, a name that was not known locally
C2_Witness ==
    /\ call.op = "getitem" /\ Returned(call)
    /\ OneReload(Requests(call))
    /\ call.value = collections[call.arg]

----------------------------------------------------------------------------
(* C3, C4, C5 *)

IsGeneric(className) == className \in {"Collection", "Edges"}

\* the name createCollection resolves: the type name for a named type, the
\* name property for a generic type ("" when there is none)
ResolvedName(arg) ==
    IF ~IsGeneric(arg.className) THEN arg.className
    ELSE IF Has(arg.colProperties, "name") THEN arg.colProperties["name"]
    ELSE ""

\* C3: createCollection whose resolved name is already a key of collections
\* fails with a Creation error, sends no request and leaves collections and
\* graphs as they were.
C3_DuplicateName ==
    [][ (call'.op = "createCollection"
         /\ ResolvedName(call'.arg) \in DOMAIN collections) =>
           /\ call'.exc.type = "CreationError"
           /\ call'.events = <<>>
           /\ UNCHANGED <<collections, graphs>> ]_vars

\* createCollection('Collection', name='x', waitForSync=False) has failed
\* with the Creation error of a name already known, without a request
C3_Witness ==
    /\ call.op = "createCollection"
    /\ call.arg.className = "Collection"
    /\ call.arg.colProperties = [name |-> "x", waitForSync |-> FALSE]
    /\ call.exc.type = "CreationError"
    /\ call.exc.aux = "x"
    /\ call.events = <<>>
    /\ "x" \in DOMAIN collections

\* C4: createCollection of a generic type without a name among the
\* properties fails with a ValueError, sends no request and changes neither
\* registry, whether or not other properties are given.
C4_GenericNeedsName ==
    [][ (call'.op = "createCollection"
         /\ IsGeneric(call'.arg.className)
         /\ ~Has(call'.arg.colProperties, "name")) =>
           /\ call'.exc.type = "ValueError"
           /\ call'.events = <<>>
           /\ UNCHANGED <<collections, graphs>> ]_vars

\* createCollection('Edges', waitForSync=False) has failed with a ValueError
C4_Witness ==
    /\ call.op = "createCollection"
    /\ call.arg.className = "Edges"
    /\ call.arg.colProperties = [waitForSync |-> FALSE]
    /\ call.exc.type = "ValueError"
    /\ call.events = <<>>

\* the server has answered status 200 with error = false
Created(resp) ==
    resp.status = 200 /\ Has(resp.data, "error") /\ ~resp.data["error"]

\* C5: createCollection('Collection', name=x) with x not known locally sends
\* exactly one POST and no other request; when the answer is status 200
\* with error = false it returns a handle that is registered under x, so
\* that hasCollection(x) is true and database[x] returns that handle without
\* a request, and no other entry of collections and no entry of graphs
\* changes.
C5_CreateRegisters ==
    [][ (call'.op = "createCollection"
         /\ call'.arg.className = "Collection"
         /\ Has(call'.arg.colProperties, "name")
         /\ call'.arg.colProperties["name"] \notin DOMAIN collections) =>
           LET x == call'.arg.colProperties["name"]
               reqs == Requests(call')
               after == [Self' EXCEPT !.events = <<>>]
           IN /\ Len(reqs) = 1
              /\ reqs[1].t = "POST" /\ reqs[1].target = "collection"
              /\ Returned(call') <=> Created(reqs[1].resp)
              /\ Returned(call') =>
                   /\ hasCollection(after, x, NoResp, NoResp).value
                   /\ collections'[x] = call'.value
                   /\ call'.value.name = x
                   /\ LET got == getitem(after, x, NoResp, NoResp, NoResp,
                                         NoResp)
                      IN /\ Ok(got.st)
                         /\ got.st.events = <<>>
                         /\ got.value = call'.value
                   /\ DOMAIN collections' = DOMAIN collections \cup {x}
                   /\ \A k \in DOMAIN collections :
                          collections'[k] = collections[k]
                   /\ graphs' = graphs ]_vars

\* createCollection('Collection', name='x') has returned a handle while
\* other collections are known
C5_Witness ==
    /\ call.op = "createCollection"
    /\ call.arg.className = "Collection"
    /\ call.arg.colProperties = [name |-> "x"]
    /\ Returned(call)
    /\ Len(Requests(call)) = 1
    /\ call.value = collections["x"]
    /\ DOMAIN collections = {"x", "Users", "_users"}

----------------------------------------------------------------------------
(* C6 *)

Ref(name, role) == [name |-> name, role |-> role]

Refs(lst, role) == [i \in DOMAIN lst |-> Ref(lst[i], role)]

\* the names the edge definitions reference, in definition order
RECURSIVE EdgeRefs(_)
EdgeRefs(eds) ==
    IF eds = <<>> THEN <<>>
    ELSE <<Ref(Head(eds).edgesCollection, "edge")>>
         \o Refs(Head(eds).fromCollections, "from")
         \o Refs(Head(eds).toCollections, "to")
         \o EdgeRefs(Tail(eds))

\* the names a graph class references: its edge definitions, then its orphans
GraphRefs(name) ==
    EdgeRefs(GraphClasses[name].eds) \o Refs(GraphClasses[name].orphans, "orphan")

KnownCollectionTypes == DOMAIN CollectionClasses

KnownEdgeTypes == { n \in DOMAIN CollectionClasses : CollectionClasses[n].edge }

Unknown(ref) == ref.name \notin KnownCollectionTypes

\* a reference fails its check: an edge collection that is no edge collection
\* type, another collection that is no collection type
Offends(ref) ==
    IF ref.role = "edge" THEN ref.name \notin KnownEdgeTypes
    ELSE ref.name \notin KnownCollectionTypes

\* the first reference that is unknown, the first that fails its check
FirstUnknown(refs) ==
    refs[CHOOSE i \in DOMAIN refs :
             Unknown(refs[i]) /\ \A j \in 1..(i - 1) : ~Unknown(refs[j])]

FirstOffending(refs) ==
    refs[CHOOSE i \in DOMAIN refs :
             Offends(refs[i]) /\ \A j \in 1..(i - 1) : ~Offends(refs[j])]

ReferencesUnknown(name) ==
    /\ name \in DOMAIN GraphClasses
    /\ \E i \in DOMAIN GraphRefs(name) : Unknown(GraphRefs(name)[i])

\* C6 as stated: createGraph of a graph type that references a name that is
\* not a known collection type fails with a ValueError naming the first such
\* name in definition order, sends no request and leaves graphs unchanged.
C6_GraphCheckAsStated ==
    [][ (call'.op = "createGraph" /\ ReferencesUnknown(call'.arg)) =>
           /\ call'.exc.type = "ValueError"
           /\ call'.exc.aux = FirstUnknown(GraphRefs(call'.arg)).name
           /\ call'.events = <<>>
           /\ UNCHANGED <<collections, graphs>> ]_vars

\* C6 as amended: the ValueError names the first reference in definition
\* order that fails its check, where an edge collection fails when it is not
\* a known edge collection type (even if it is a known collection type) and
\* any other collection fails when it is not a known collection type.
C6_GraphCheck ==
    [][ (call'.op = "createGraph" /\ ReferencesUnknown(call'.arg)) =>
           /\ call'.exc.type = "ValueError"
           /\ call'.exc.aux = FirstOffending(GraphRefs(call'.arg)).name
           /\ call'.events = <<>>
           /\ UNCHANGED <<collections, graphs>> ]_vars

\* createGraph of a type whose first edge definition passes and whose second
\* has unknown from and to collections has failed naming the from collection
C6_Witness ==
    /\ call.op = "createGraph"
    /\ call.arg = "BadSecond"
    /\ call.exc.type = "ValueError"
    /\ call.exc.aux = "Nobody"
    /\ call.events = <<>>

----------------------------------------------------------------------------
(* C7 *)

\* the names that start with '_'
UnderscoreNames == {"_users"}

DeletesOf(c, target, name) ==
    Cardinality({ i \in DOMAIN Deletes(c) :
                    Deletes(c)[i].target = target /\ Deletes(c)[i].body = name })

\* C7: dropAllCollections invokes delete exactly once on every graph of
\* graphs and on every collection of collections whose name does not start
\* with '_', on no collection whose name does, on nothing else, and invokes
\* every graph delete before the first collection delete.
C7_DropAll ==
    [][ call'.op = "dropAllCollections" =>
          LET d == Deletes(call') IN
          /\ Returned(call')
          /\ \A g \in DOMAIN graphs : DeletesOf(call', "graph", g) = 1
          /\ \A c \in DOMAIN collections :
                 DeletesOf(call', "collection", c)
                     = IF c \in UnderscoreNames THEN 0 ELSE 1
          /\ \A i \in DOMAIN d :
                 \/ d[i].target = "graph" /\ d[i].body \in DOMAIN graphs
                 \/ d[i].target = "collection" /\ d[i].body \in DOMAIN collections
          /\ \A i, j \in DOMAIN d :
                 (d[i].target = "graph" /\ d[j].target = "collection") => i < j
        ]_vars

\* dropAllCollections has deleted two graphs and then two collections and
\* has left the collection _users alone
C7_Witness ==
    /\ call.op = "dropAllCollections"
    /\ DOMAIN graphs = {"g", "Social"}
    /\ DOMAIN collections = {"_users", "x", "Knows"}
    /\ Len(call.events) = 4
    /\ call.events[2].target = "graph"
    /\ call.events[3].target = "collection"

----------------------------------------------------------------------------
(* C8, C9, C10 *)

Posts(c, target) ==
    { i \in DOMAIN c.events :
        c.events[i].t = "POST" /\ c.events[i].target = target }

CarriesServerError(c, type, aux) ==
    \E i \in DOMAIN c.events :
        /\ c.events[i].t = "POST"
        /\ Has(c.events[i].resp.data, "errorMessage")
        /\ c.exc = Exc(type, c.events[i].resp.data["errorMessage"],
                       c.events[i].resp.data, aux)

\* C8: transaction sends exactly one POST to the transaction endpoint; it
\* returns the decoded response when the status is 200, 201 or 202 and the
\* response has no true error flag, and otherwise fails with a Transaction
\* error carrying the server's message, the action and the payload.
C8_TransactionAsStated ==
    call.op = "transaction" =>
        /\ Cardinality(Posts(call, "transaction")) = 1
        /\ Len(Requests(call)) = 1
        /\ LET resp == Requests(call)[1].resp IN
           IF resp.status \in {200, 201, 202}
              /\ ~(Has(resp.data, "error") /\ resp.data["error"])
           THEN Returned(call) /\ call.value = resp.data
           ELSE CarriesServerError(call, "TransactionError", call.arg)

\* C9: validateAQLQuery returns the decoded response exactly when the status
\* is 201 and the error flag is false, otherwise fails with a Query error
\* carrying the query, the server's message and the payload; the registries
\* do not change.
C9_ValidateAsStated ==
    [][ call'.op = "validateAQLQuery" =>
          /\ Cardinality(Posts(call', "cursor")) = 1
          /\ Len(Requests(call')) = 1
          /\ LET resp == Requests(call')[1].resp IN
             IF resp.status = 201 /\ Has(resp.data, "error")
                /\ ~resp.data["error"]
             THEN Returned(call') /\ call'.value = resp.data
             ELSE CarriesServerError(call', "AQLQueryError", call'.arg)
          /\ UNCHANGED <<collections, graphs>> ]_vars

\* C10: constructing a DBHandle sends no request, reading name or connection
\* does not run the initialization, and Database.__init__ runs at most once
\* over the lifetime of the instance.
C10_InitAtMostOnce ==
    /\ call.op = "DBHandle" => call.events = <<>>
    /\ (call.op = "getattr" /\ call.arg \in {"name", "connection"}) =>
           call.events = <<>>
    /\ inits <= 1

----------------------------------------------------------------------------
(* C12 *)

\* C12: on a Database, hasCollection(name) is true exactly when name is a key
\* of collections and hasGraph(name) exactly when name is a key of graphs;
\* neither sends a request, runs the initialization or changes a registry.
C12_HasIsLocal ==
    [][ (kind = "Database" /\ call'.op \in {"hasCollection", "hasGraph"}) =>
          /\ Returned(call')
          /\ call'.value = IF call'.op = "hasCollection"
                           THEN call'.arg \in DOMAIN collections
                           ELSE call'.arg \in DOMAIN graphs
          /\ call'.events = <<>>
          /\ UNCHANGED <<hasC, hasG, collections, graphs, inits>>
      ]_<<call.op, vars>>

\* hasGraph('Social') has answered false on a Database that holds a
\* collection Users and no graph Social
C12_Witness ==
    /\ kind = "Database"
    /\ call.op = "hasGraph" /\ call.arg = "Social"
    /\ Returned(call) /\ call.value = FALSE
    /\ "Social" \notin DOMAIN graphs
    /\ "Users" \in DOMAIN collections

----------------------------------------------------------------------------
(* C13 *)

\* the _properties a collection type declares ({} when it declares none)
Defaults(className) ==
    IF CollectionClasses[className].hasProps
    THEN CollectionClasses[className].props ELSE EmptyDict

\* a overlaid with b: the keys of both, b's value where both have the key
Overlay(a, b) ==
    [k \in DOMAIN a \cup DOMAIN b |-> IF k \in DOMAIN b THEN b[k] ELSE a[k]]

\* the body of every POST of the call carries, besides name and type, exactly
\* the properties want
PostsProperties(c, want) ==
    \A i \in Posts(c, "collection") :
        LET body == c.events[i].body
            keys == DOMAIN want \ {"name", "type"}
        IN /\ DOMAIN body \ {"name", "type"} = keys
           /\ \A k \in keys : body[k] = want[k]

\* C13 as stated: the properties createCollection POSTs are the declared
\* defaults of the type overlaid with the caller's properties, whether or not
\* the caller gives any.
C13_MergedAsStated ==
    call.op = "createCollection" =>
        PostsProperties(call, Overlay(Defaults(call.arg.className),
                                      call.arg.colProperties))

\* C13 as amended: the properties createCollection POSTs are the caller's
\* properties alone when the caller gives any, and the declared defaults of
\* the type only when the caller gives none; name and type are then set from
\* the type.
C13_Properties ==
    call.op = "createCollection" =>
        /\ PostsProperties(call,
               IF DOMAIN call.arg.colProperties # {}
               THEN call.arg.colProperties
               ELSE Defaults(call.arg.className))
        /\ \A i \in Posts(call, "collection") :
               /\ call.events[i].body["name"] = ResolvedName(call.arg)
               /\ call.events[i].body["type"] =
                      IF CollectionClasses[call.arg.className].edge
                      THEN COLLECTION_EDGE_TYPE ELSE COLLECTION_DOCUMENT_TYPE

\* createCollection('Users', name='x') has sent a POST without the default
\* waitForSync of Users
C13_Witness ==
    /\ call.op = "createCollection"
    /\ call.arg.className = "Users"
    /\ call.arg.colProperties = [name |-> "x"]
    /\ Posts(call, "collection") # {}
    /\ \A i \in Posts(call, "collection") :
           /\ ~Has(call.events[i].body, "waitForSync")
           /\ call.events[i].body["name"] = "Users"

----------------------------------------------------------------------------
(* C14 *)

\* the error category of each operation that talks to the server
Category ==
    [reloadCollections |-> "UpdateError", reloadGraphs |-> "UpdateError",
     createCollection |-> "CreationError", createGraph |-> "CreationError",
     validateAQLQuery |-> "AQLQueryError", transaction |-> "TransactionError"]

\* C14: a call of reloadCollections, reloadGraphs, createCollection,
\* createGraph, validateAQLQuery or transaction that fails raises the error
\* of its category (before any request, a validation error at most), and a
\* failure after a request carries the payload of the last response and its
\* errorMessage when it has one; no other kind of error comes out, whatever
\* the status and the fields of the response.
C14_CategoryErrorsAsStated ==
    (call.op \in DOMAIN Category /\ ~Returned(call)) =>
        IF Requests(call) = <<>>
        THEN call.exc.type \in {Category[call.op], "ValueError"}
        ELSE LET resp == Requests(call)[Len(Requests(call))].resp IN
             /\ call.exc.type = Category[call.op]
             /\ call.exc.data = resp.data
             /\ Has(resp.data, "errorMessage") =>
                    call.exc.msg = resp.data["errorMessage"]

----------------------------------------------------------------------------
(* C15 *)

\* C15: reload() sends the collections listing GET first; when that listing
\* is answered with a status other than 200 the graphs GET is not sent and
\* graphs is unchanged; when it is answered 200 the graphs GET follows, and
\* if that one is answered with a status other than 200 reload() fails with
\* an Update error.
C15_ReloadOrderAsStated ==
    [][ call'.op = "reload" =>
          LET reqs == Requests(call') IN
          /\ Len(reqs) >= 1
          /\ IsGet(reqs[1], "collection")
          /\ IF reqs[1].resp.status # 200
             THEN /\ Len(reqs) = 1
                  /\ ~Returned(call')
                  /\ UNCHANGED <<hasG, graphs>>
             ELSE /\ Len(reqs) = 2
                  /\ IsGet(reqs[2], "gharial")
                  /\ reqs[2].resp.status # 200 =>
                         call'.exc.type = "UpdateError"
      ]_<<call.op, vars>>

----------------------------------------------------------------------------
(* C16 *)

\* the call ended at a listing request answered with a status other than 200
FailedListing(c) ==
    /\ Requests(c) # <<>>
    /\ Requests(c)[Len(Requests(c))].t = "GET"
    /\ Requests(c)[Len(Requests(c))].resp.status # 200

\* C16: a reloadCollections, reloadGraphs or reload whose listing request is
\* answered with a status other than 200 fails with an Update error that
\* carries the payload and its errorMessage; reloadCollections then leaves
\* collections as it was, reloadGraphs leaves graphs as it was, and reload
\* leaves both as they were.
C16_FailedReloadAsStated ==
    [][ (call'.op \in {"reloadCollections", "reloadGraphs", "reload"}
         /\ FailedListing(call')) =>
          LET resp == Requests(call')[Len(Requests(call'))].resp IN
          /\ call'.exc.type = "UpdateError"
          /\ call'.exc.data = resp.data
          /\ Has(resp.data, "errorMessage") =>
                 call'.exc.msg = resp.data["errorMessage"]
          /\ call'.op # "reloadGraphs" => UNCHANGED <<hasC, collections>>
          /\ call'.op # "reloadCollections" => UNCHANGED <<hasG, graphs>>
      ]_<<call.op, vars>>

----------------------------------------------------------------------------
(* C18 *)

\* the notifications and the POSTs of a call, in order
Reported(c) ==
    SelectSeq(c.events,
              LAMBDA ev : ev.t \in {"reportStart", "POST", "reportItem"})

\* C18: a transaction() call emits one reportStart with the action, then
\* sends its POST, then emits one reportItem, and nothing else of the three,
\* whether it returns or fails with a Transaction error.
C18_NotificationsAsStated ==
    call.op = "transaction" =>
        /\ Len(Reported(call)) = 3
        /\ Reported(call)[1].t = "reportStart"
        /\ Reported(call)[1].body = call.arg
        /\ Reported(call)[2].t = "POST"
        /\ Reported(call)[2].target = "transaction"
        /\ Reported(call)[3].t = "reportItem"
        /\ Returned(call) \/ call.exc.type = "TransactionError"

----------------------------------------------------------------------------
(* C19 *)

\* every collection the graph type refers to passes its check
ChecksPass(name) ==
    /\ name \in DOMAIN GraphClasses
    /\ \A i \in DOMAIN GraphRefs(name) : ~Offends(GraphRefs(name)[i])

\* C19: createGraph(name) whose collection checks pass sends exactly one
\* POST; when the status is 201 or 202 the handle built from the graph
\* description of the response is registered under name, the other graphs
\* stay, and the handle is returned; for any other status, 200 included, the
\* call fails with a Creation error and graphs is unchanged; collections is
\* unchanged in both cases.
C19_CreateGraphAsStated ==
    [][ (call'.op = "createGraph" /\ ChecksPass(call'.arg)) =>
          /\ Len(Requests(call')) = 1
          /\ Requests(call')[1].t = "POST"
          /\ Requests(call')[1].target = "gharial"
          /\ LET resp == Requests(call')[1].resp IN
             IF resp.status \in {201, 202}
             THEN Has(resp.data, "graph") =>
                    /\ Returned(call')
                    /\ call'.value = GraphHandle(call'.arg, resp.data["graph"])
                    /\ graphs' = Put(graphs, call'.arg, call'.value)
             ELSE /\ call'.exc.type = "CreationError"
                  /\ UNCHANGED graphs
          /\ UNCHANGED collections
      ]_<<call.op, vars>>

----------------------------------------------------------------------------
(* C20 *)

\* C20: dropAllCollections() on a Database sends no listing request, and
\* when it returns collections and graphs have the keys they had before the
\* call: the graphs and collections it deleted are still registered.
C20_DropKeepsRegistries ==
    [][ (kind = "Database" /\ call'.op = "dropAllCollections") =>
          /\ Returned(call')
          /\ Requests(call') = <<>>
          /\ DOMAIN collections' = DOMAIN collections
          /\ DOMAIN graphs' = DOMAIN graphs
          /\ UNCHANGED <<hasC, hasG, inits>>
      ]_<<call.op, vars>>

\* dropAllCollections() has deleted a graph and a collection that are both
\* still registered
C20_Witness ==
    /\ kind = "Database"
    /\ call.op = "dropAllCollections" /\ Returned(call)
    /\ \E i, j \in DOMAIN call.events :
           /\ call.events[i].t = "delete" /\ call.events[i].target = "graph"
           /\ call.events[i].body \in DOMAIN graphs
           /\ call.events[j].t = "delete"
           /\ call.events[j].target = "collection"
           /\ call.events[j].body \in DOMAIN collections

----------------------------------------------------------------------------
(* C17 *)

\* the listing the reload under way, or just ended, received
Listing(c) == c.events[1].resp

\* C17: whenever collections can be read during or after a reloadCollections
\* it is either the whole mapping of before the call or the whole mapping
\* built from the listing, and likewise graphs during or after a
\* reloadGraphs: never an empty or partly filled mapping.
C17_WholeReplacementAsStated ==
    /\ call.op \in {"reloadCollections.loop", "reloadCollections"} =>
          \/ collections = call.arg
          \/ /\ Listing(call).status = 200
             /\ collections = LoadCollections(EmptyDict,
                                              Listing(call).data.result)
    /\ call.op \in {"reloadGraphs.loop", "reloadGraphs"} =>
          \/ graphs = call.arg
          \/ /\ Listing(call).status = 200
             /\ graphs = LoadGraphs(EmptyDict, Listing(call).data.graphs)

----------------------------------------------------------------------------
(* C11 *)

\* C11: a DBHandle and a Database that was constructed eagerly, given the
\* same calls and the same responses, end every call with the same result
\* or the same error, and hold the same collections and graphs mappings as
\* soon as the handle holds them.
C11_EquivalentAsStated ==
    call.op \notin {"idle", "DBHandle"} =>
        /\ call.exc.type = twin.exc.type
        /\ call.exc.msg = twin.exc.msg
        /\ call.exc.aux = twin.exc.aux
        /\ Returned(call) => call.value = twin.value
        /\ Agree

====
